---- MODULE Spec2Model ----
(***************************************************************************)
(* The browser client of the fraud-detection dashboard, as a state machine *)
(* of one browser tab: the App shell with its router and auth state, the   *)
(* Login page, the ProfileDropdown, and the pages that talk to the API.    *)
(* Every React callback (event handler, effect, promise continuation) is   *)
(* one action; a request in flight is a process whose continuation is a    *)
(* later action. The API server is the environment: a request's effect on  *)
(* the user's rows happens in the step in which its answer arrives.        *)
(***************************************************************************)
EXTENDS Integers, Sequences, FiniteSets, TLC

VARIABLES
    localStorage,       \* window.localStorage: the keys the client reads and writes
    isAuthenticated,    \* App.tsx useAuthState: the React state
    location,           \* wouter location (the URL path)
    hash,               \* the URL fragment (the OAuth callback's tokens)
    live,               \* the route component that is mounted and has run its mount effects
    login,              \* Login.tsx component state
    loginReq,           \* the login() request in flight, with what its closure captured
    loginCalls,         \* number of login() requests issued
    toast,              \* title of the toast the Login page showed last
    lastOp,             \* the callback of App, Login or ProfileDropdown that ran last
    db,                 \* server: the user's transactions, oldest first; the id is the position
    dbPreds,            \* server: number of predictions stored for the user
    detect,             \* FraudDetection.tsx component state
    recentTx,           \* query ["recent-transactions"]
    submits,            \* handleFormSubmit invocations waiting on an await
    mutations,          \* createPrediction requests in flight
    predLog,            \* every createPrediction request issued, in order
    apiCalls,           \* number of requests issued, per API function
    histQuery,          \* query ["prediction-history", page]
    sessionStorage,     \* window.sessionStorage: the users u whose key seeded_demo_<u> is set
    filters,            \* Transactions component state
    metrics,            \* query ["dashboard-metrics"]
    predictions,        \* query ["recent-predictions"]
    txQuery,            \* queries ["transactions", queryParams], by queryParams
    runs,               \* runs of the auto-seed effects waiting on an await
    effectCalls,        \* number of effect runs that reached an await, and of seed requests
    security,           \* Profile component state: the three password fields
    profileQuery,       \* query ["user-profile"]
    passwordCalls,      \* changePassword requests in flight (their payloads)
    passwordSent,       \* number of changePassword requests sent
    redirectTimers,     \* pending setTimeout callbacks of changePasswordMutation.onSuccess
    historyPage,        \* History component state: page
    historyCache        \* queries ["prediction-history", page], by page, once fetched

viewVars == <<isAuthenticated, location, live, login, detect, filters, security,
              historyPage>>

loginVars == <<loginReq, loginCalls>>

serverVars == <<db, dbPreds>>

detectVars == <<recentTx, submits, mutations, predLog, apiCalls>>

queryVars == <<metrics, predictions, txQuery>>

seedVars == <<sessionStorage, queryVars, runs, effectCalls>>

pageVars == <<profileQuery, passwordCalls, passwordSent, redirectTimers, historyCache>>

vars == <<localStorage, hash, toast, lastOp, viewVars, loginVars, serverVars,
          detectVars, histQuery, seedVars, pageVars>>

(***************************************************************************)
(* Bounds of the model.                                                    *)
(***************************************************************************)
MaxLoginCalls == 2

\* Form submissions on the Fraud Detection page in one behaviour.
MaxSubmits == 2

\* Runs of the auto-seed effects that reach an await in one behaviour.
MaxRuns == 2

\* changePassword requests sent in one behaviour.
MaxPasswordCalls == 2

(***************************************************************************)
(* Program constants.                                                      *)
(***************************************************************************)
\* useState<string>(""): no transaction selected; ids are positions, from 1.
NoSelection == 0

\* fetchTransactions({ limit: 20, skip: 0 }).
RecentLimit == 20

\* History: const limit = 20.
limit == 20

\* handleSaveSecurity: newPassword.length < 8.
MinPasswordLength == 8

\* Dashboard and Transactions: seedTransactions(30).
SeedCount == 30

\* Dashboard: fetchPredictionHistory({ limit: 8, offset: 0 }).
AlertsLimit == 8

\* Dashboard: fetchTransactions({ limit: 20 }) and ids.slice(0, 20).
BatchLimit == 20

(***************************************************************************)
(* Values.                                                                 *)
(***************************************************************************)
Null == "<null>"

\* JavaScript's Boolean(v) for the values localStorage.getItem returns.
Boolean(v) == v /= Null /\ v /= ""

Min(a, b) == IF a < b THEN a ELSE b

AuthPaths == {"/", "/transactions", "/detect", "/analytics", "/model", "/history",
              "/settings", "/profile"}

Paths == AuthPaths \cup {"/login", "/nowhere"}

AuthPages == {"Dashboard", "Transactions", "FraudDetection", "Analytics", "ModelInfo",
              "History", "Settings", "Profile"}

Emails == {"a@bank.in"}

\* What the login endpoint answers with: a JWT pair.
LoginResponses == {[access_token |-> "jwt.pw", refresh_token |-> "refresh.pw"]}

NoHash == [access_token |-> Null, refresh_token |-> Null, email |-> Null]

\* The fragments the tab can be loaded with at /login.
Hashes == {NoHash,
           [access_token |-> "jwt.g", refresh_token |-> "refresh.g", email |-> "g@mail.in"],
           [access_token |-> "jwt.g", refresh_token |-> "refresh.g", email |-> Null],
           [access_token |-> "jwt.g", refresh_token |-> Null, email |-> "g@mail.in"]}

EmptyStorage == [access_token |-> Null, refresh_token |-> Null, user_email |-> Null,
                 user_name |-> Null, remembered_email |-> Null]

\* Storage of a tab whose user has signed in with a password.
SignedInStorage == [EmptyStorage EXCEPT !.access_token = "jwt.pw",
                                        !.refresh_token = "refresh.pw"]

LoginFresh == [email |-> "", rememberMe |-> FALSE, isLoading |-> FALSE]

NoLoginReq == [pending |-> FALSE, email |-> "", rememberMe |-> FALSE]

\* FraudDetection state: selectedTransactionId, and whether the selection was made
\* in the dropdown.
DetectFresh == [selectedTransactionId |-> NoSelection, chosenByUser |-> FALSE]

\* A query nobody has fetched yet.
NoData == [has |-> FALSE, ids |-> <<>>, fetching |-> FALSE, error |-> FALSE]

NoHistory == [has |-> FALSE, fetching |-> FALSE, error |-> FALSE]

NoCalls == [createPrediction |-> 0, createTransaction |-> 0, seedOne |-> 0, submit |-> 0]

\* Transactions state: the filters applied last (useState({}): no status yet).
NoFilters == [status |-> Null]

\* The Status options of TransactionFilters the user applies here (two of the four;
\* legitimate and pending both ask for is_fraud = false).
StatusInputs == {"all", "fraudulent"}

\* The queryParams objects Transactions can build, as their JSON text.
QueryKeys == {"{}", "{is_fraud:true}", "{is_fraud:false}"}

\* A query of the Dashboard or of Transactions nobody has fetched yet; data is what
\* the effects read of the answer: total_transactions, or the number of rows.
NoCount == [has |-> FALSE, data |-> 0, fetching |-> FALSE, error |-> FALSE]

NoMetrics == NoCount

NoPredictions == NoCount

NoTransactions == [k \in QueryKeys |-> NoCount]

NoEffectCalls == [run |-> 0, seed |-> 0]

\* Profile: useState("") for currentPassword, newPassword and confirmPassword; a
\* string is the sequence of its characters.
SecurityFresh == [currentPassword |-> <<>>, newPassword |-> <<>>, confirmPassword |-> <<>>]

\* The user-profile query before its first fetch.
NoProfile == [has |-> FALSE, fetching |-> FALSE]

\* History: useState(0) for page.
FirstPage == 0

\* History: no page of the history fetched yet.
NoPages == <<>>

\* What the FraudDetectionForm hands to onSubmit: the amount field's text, the
\* merchant and the category.
FormInputs == {[amount |-> "", merchant |-> "", category |-> "retail"],
               [amount |-> "250.50", merchant |-> "Kirana", category |-> "grocery"]}

\* FraudDetectionForm: parseFloat(amount), then handleFormSubmit: Number(x) || 0,
\* in hundredths.
AmountOf(text) == IF text = "250.50" THEN 25050 ELSE 0

\* handleFormSubmit: the createTransaction payload ("" || undefined is undefined).
Payload(data) ==
    [amount |-> AmountOf(data.amount),
     merchant_name |-> IF data.merchant = "" THEN Null ELSE data.merchant,
     merchant_category |-> IF data.category = "" THEN Null ELSE data.category]

\* A row of the seed endpoint, and the row createTransaction stores.
SeedTx == [is_fraud |-> FALSE, kind |-> "seed", amount |-> 100, merchant_name |-> "Demo",
           merchant_category |-> "retail"]

ManualTx(payload) ==
    [is_fraud |-> FALSE, kind |-> "manual", amount |-> payload.amount,
     merchant_name |-> payload.merchant_name,
     merchant_category |-> payload.merchant_category]

\* GET /transactions?limit=n: the ids of the newest rows, newest first.
LatestIds(n) == [i \in 1..Min(Len(db), n) |-> Len(db) - i + 1]

\* react-query isLoading: no data and no error yet.
IsLoading(q) == ~q.has /\ ~q.error

RemoveAt(seq, i) == [j \in 1..(Len(seq) - 1) |-> IF j < i THEN seq[j] ELSE seq[j + 1]]

(***************************************************************************)
(* App.tsx: the two route trees.                                           *)
(***************************************************************************)
AuthenticatedRoutes(path) ==
    CASE path = "/"             -> "Dashboard"
      [] path = "/transactions" -> "Transactions"
      [] path = "/detect"       -> "FraudDetection"
      [] path = "/analytics"    -> "Analytics"
      [] path = "/model"        -> "ModelInfo"
      [] path = "/history"      -> "History"
      [] path = "/settings"     -> "Settings"
      [] path = "/profile"      -> "Profile"
      [] path = "/login"        -> "RedirectHome"
      [] OTHER                  -> "NotFound"

UnauthenticatedRoutes(path) ==
    IF path = "/login" THEN "Login" ELSE "RedirectLogin"

\* App: which route component the current state renders.
Route(auth, path) ==
    IF auth THEN AuthenticatedRoutes(path) ELSE UnauthenticatedRoutes(path)

Mounted == Route(isAuthenticated, location)

\* useAuthState's listener: what setIsAuthenticated receives when the event fires.
AuthChangedHandler(storage) == Boolean(storage.access_token)

\* lib/api storeAuthTokens: keeps the token pair of a login response.
storeAuthTokens(storage, data) ==
    [storage EXCEPT !.access_token = data.access_token,
                    !.refresh_token = data.refresh_token]

\* lib/api clearAuthTokens: drops the token pair.
clearAuthTokens(storage) ==
    [storage EXCEPT !.access_token = Null, !.refresh_token = Null]

(***************************************************************************)
(* A render after a change of the auth state or of the location: a route   *)
(* component that is no longer selected unmounts and loses its state.      *)
(***************************************************************************)
SetView(auth, path) ==
    LET stays == Route(auth, path) = live
    IN /\ isAuthenticated' = auth
       /\ location' = path
       /\ live' = IF stays THEN live ELSE "none"
       /\ login' = IF stays /\ live = "Login" THEN login ELSE LoginFresh
       /\ detect' = IF stays /\ live = "FraudDetection" THEN detect ELSE DetectFresh
       /\ filters' = IF stays /\ live = "Transactions" THEN filters ELSE NoFilters
       /\ security' = IF stays /\ live = "Profile" THEN security ELSE SecurityFresh
       /\ historyPage' = IF stays /\ live = "History" THEN historyPage ELSE FirstPage

\* What a page load leaves of the tab's memory: nothing.
MemoryLost ==
    /\ live' = "none"
    /\ login' = LoginFresh
    /\ detect' = DetectFresh
    /\ filters' = NoFilters
    /\ loginReq' = NoLoginReq
    /\ recentTx' = NoData
    /\ histQuery' = NoHistory
    /\ submits' = <<>>
    /\ mutations' = <<>>
    /\ toast' = "none"
    /\ metrics' = NoMetrics
    /\ predictions' = NoPredictions
    /\ txQuery' = NoTransactions
    /\ runs' = <<>>
    /\ security' = SecurityFresh
    /\ profileQuery' = NoProfile
    /\ passwordCalls' = <<>>
    /\ redirectTimers' = 0
    /\ historyPage' = FirstPage
    /\ historyCache' = NoPages

Init ==
    /\ localStorage = EmptyStorage
    /\ isAuthenticated = AuthChangedHandler(EmptyStorage)
    /\ location = "/login"
    /\ hash = NoHash
    /\ live = "none"
    /\ login = LoginFresh
    /\ loginReq = NoLoginReq
    /\ loginCalls = 0
    /\ toast = "none"
    /\ lastOp = "load"
    /\ db = <<>>
    /\ dbPreds = 0
    /\ detect = DetectFresh
    /\ recentTx = NoData
    /\ submits = <<>>
    /\ mutations = <<>>
    /\ predLog = <<>>
    /\ apiCalls = NoCalls
    /\ histQuery = NoHistory
    /\ sessionStorage = {}
    /\ filters = NoFilters
    /\ metrics = NoMetrics
    /\ predictions = NoPredictions
    /\ txQuery = NoTransactions
    /\ runs = <<>>
    /\ effectCalls = NoEffectCalls
    /\ security = SecurityFresh
    /\ profileQuery = NoProfile
    /\ passwordCalls = <<>>
    /\ passwordSent = 0
    /\ redirectTimers = 0
    /\ historyPage = FirstPage
    /\ historyCache = NoPages

(***************************************************************************)
(* The browser loads the app at a URL (first visit, reload, address bar,   *)
(* the OAuth provider's redirect back to /login#...): memory is lost,      *)
(* storage is kept, useState's initialiser reads the token.                *)
(***************************************************************************)
PageLoad(path, h) ==
    /\ h /= NoHash => path = "/login"
    /\ isAuthenticated' = Boolean(localStorage.access_token)
    /\ location' = path
    /\ hash' = h
    /\ MemoryLost
    /\ lastOp' = "load"
    /\ UNCHANGED <<localStorage, sessionStorage, loginCalls, serverVars, predLog,
                   apiCalls, effectCalls, passwordSent>>

\* App.tsx Redirect: the effect of the component both trees use.
RedirectEffect ==
    /\ Mounted \in {"RedirectHome", "RedirectLogin"}
    /\ SetView(isAuthenticated, IF Mounted = "RedirectHome" THEN "/" ELSE "/login")
    /\ hash' = NoHash
    /\ lastOp' = "redirect"
    /\ UNCHANGED <<localStorage, toast, loginVars, serverVars, detectVars, histQuery,
                   seedVars, pageVars>>

\* Login.tsx: the mount effect that takes the OAuth tokens of the fragment.
LoginMountEffect ==
    /\ Mounted = "Login"
    /\ live /= "Login"
    /\ IF Boolean(hash.access_token) /\ Boolean(hash.refresh_token)
       THEN LET s1 == [localStorage EXCEPT !.access_token = hash.access_token,
                                           !.refresh_token = hash.refresh_token]
                s2 == IF Boolean(hash.email)
                      THEN [s1 EXCEPT !.user_email = hash.email] ELSE s1
                s3 == [s2 EXCEPT !.user_name = "User"]
            IN /\ localStorage' = s3
               /\ hash' = NoHash
               /\ SetView(AuthChangedHandler(s3), "/")
               /\ lastOp' = "oauth"
       ELSE /\ live' = "Login"
            /\ login' = LoginFresh
            /\ lastOp' = "loginMount"
            /\ UNCHANGED <<localStorage, hash, isAuthenticated, security, historyPage,
                           filters, location, detect>>
    /\ UNCHANGED <<toast, loginVars, serverVars, detectVars, histQuery, seedVars,
                   pageVars>>

\* Login.tsx: the controlled inputs.
LoginEdit(e, r) ==
    /\ Mounted = "Login"
    /\ live = "Login"
    /\ login' = [login EXCEPT !.email = e, !.rememberMe = r]
    /\ login' /= login
    /\ lastOp' = "loginEdit"
    /\ UNCHANGED <<localStorage, hash, toast, isAuthenticated, security, historyPage,
                   filters, location, live, detect, loginVars, serverVars, detectVars,
                   histQuery, seedVars, pageVars>>

\* Login.tsx handleSubmit up to its await: the button is disabled while isLoading
\* and the email input is required.
LoginSubmit ==
    /\ Mounted = "Login"
    /\ live = "Login"
    /\ ~login.isLoading
    /\ login.email /= ""
    /\ loginCalls < MaxLoginCalls
    /\ login' = [login EXCEPT !.isLoading = TRUE]
    /\ loginReq' = [pending |-> TRUE, email |-> login.email, rememberMe |-> login.rememberMe]
    /\ loginCalls' = loginCalls + 1
    /\ lastOp' = "loginSubmit"
    /\ UNCHANGED <<localStorage, hash, toast, isAuthenticated, security, historyPage,
                   filters, location, live, detect, serverVars, detectVars, histQuery,
                   seedVars, pageVars>>

\* handleSubmit with the event dispatched before the tokens are stored.
handleSubmitDispatchFirst(data) ==
    /\ loginReq.pending
    /\ LET s1 == storeAuthTokens(localStorage, data)
           s2 == [s1 EXCEPT !.remembered_email =
                      IF loginReq.rememberMe THEN loginReq.email ELSE Null]
       IN /\ localStorage' = s2
          /\ hash' = NoHash
          /\ SetView(AuthChangedHandler(localStorage), "/")
    /\ loginReq' = NoLoginReq
    /\ lastOp' = "loginOk"
    /\ UNCHANGED <<loginCalls, toast, serverVars, detectVars, histQuery, seedVars,
                   pageVars>>

\* Login.tsx handleSubmit after login() resolved, with its finally block (the Login
\* page unmounts in this step, so setIsLoading(false) has nothing left to reset).
handleSubmitResolved(data) ==
    /\ loginReq.pending
    /\ LET s1 == storeAuthTokens(localStorage, data)
           s2 == [s1 EXCEPT !.remembered_email =
                      IF loginReq.rememberMe THEN loginReq.email ELSE Null]
       IN /\ localStorage' = s2
          /\ hash' = NoHash
          /\ SetView(AuthChangedHandler(s2), "/")
    /\ loginReq' = NoLoginReq
    /\ lastOp' = "loginOk"
    /\ UNCHANGED <<loginCalls, toast, serverVars, detectVars, histQuery, seedVars,
                   pageVars>>

\* handleSubmit's rejection path without the finally block.
handleSubmitLoadingStuck ==
    /\ loginReq.pending
    /\ toast' = "Login failed"
    /\ loginReq' = NoLoginReq
    /\ lastOp' = "loginFailed"
    /\ UNCHANGED <<localStorage, hash, viewVars, loginCalls, serverVars, detectVars,
                   histQuery, seedVars, pageVars>>

\* Login.tsx handleSubmit after login() rejected: the catch and the finally block.
handleSubmitRejected ==
    /\ loginReq.pending
    /\ toast' = "Login failed"
    /\ login' = IF live = "Login" THEN [login EXCEPT !.isLoading = FALSE] ELSE login
    /\ loginReq' = NoLoginReq
    /\ lastOp' = "loginFailed"
    /\ UNCHANGED <<localStorage, hash, isAuthenticated, security, historyPage, filters,
                   location, live, detect, loginCalls, serverVars, detectVars,
                   histQuery, seedVars, pageVars>>

\* AppSidebar and ProfileDropdown links: shown while the authenticated shell is.
Navigate(path) ==
    /\ isAuthenticated
    /\ path \in AuthPaths
    /\ path /= location
    /\ SetView(isAuthenticated, path)
    /\ hash' = NoHash
    /\ lastOp' = "navigate"
    /\ UNCHANGED <<localStorage, toast, loginVars, serverVars, detectVars, histQuery,
                   seedVars, pageVars>>

\* handleLogout with the event dispatched before the tokens are cleared.
handleLogoutDispatchFirst ==
    /\ isAuthenticated
    /\ localStorage' = clearAuthTokens(localStorage)
    /\ hash' = NoHash
    /\ SetView(AuthChangedHandler(localStorage), "/login")
    /\ lastOp' = "logout"
    /\ UNCHANGED <<toast, loginVars, serverVars, detectVars, histQuery, seedVars,
                   pageVars>>

\* handleLogout without its clearAuthTokens() call.
handleLogoutKeepsTokens ==
    /\ isAuthenticated
    /\ localStorage' = localStorage
    /\ hash' = NoHash
    /\ SetView(AuthChangedHandler(localStorage'), "/login")
    /\ lastOp' = "logout"
    /\ UNCHANGED <<toast, loginVars, serverVars, detectVars, histQuery, seedVars,
                   pageVars>>

\* ProfileDropdown.tsx handleLogout.
handleLogout ==
    /\ isAuthenticated
    /\ localStorage' = clearAuthTokens(localStorage)
    /\ hash' = NoHash
    /\ SetView(AuthChangedHandler(localStorage'), "/login")
    /\ lastOp' = "logout"
    /\ UNCHANGED <<toast, loginVars, serverVars, detectVars, histQuery, seedVars,
                   pageVars>>

Next ==
    \/ \E p \in Paths, h \in Hashes : PageLoad(p, h)
    \/ RedirectEffect
    \/ LoginMountEffect
    \/ \E e \in Emails \cup {""}, r \in BOOLEAN : LoginEdit(e, r)
    \/ LoginSubmit
    \/ \E d \in LoginResponses : handleSubmitResolved(d)
    \/ handleSubmitRejected
    \/ \E p \in AuthPaths : Navigate(p)
    \/ handleLogout

Spec == Init /\ [][Next]_vars

(***************************************************************************)
(* FraudDetection.tsx and History.tsx.                                     *)
(***************************************************************************)

\* The tab of a signed-in user at /detect, with no or some rows on the server.
InitDetect ==
    /\ localStorage = SignedInStorage
    /\ isAuthenticated = AuthChangedHandler(SignedInStorage)
    /\ location = "/detect"
    /\ hash = NoHash
    /\ live = "none"
    /\ login = LoginFresh
    /\ loginReq = NoLoginReq
    /\ loginCalls = 0
    /\ toast = "none"
    /\ lastOp = "navigate"
    /\ db \in {<<>>, <<SeedTx>>}
    /\ dbPreds = 0
    /\ detect = DetectFresh
    /\ recentTx = NoData
    /\ submits = <<>>
    /\ mutations = <<>>
    /\ predLog = <<>>
    /\ apiCalls = NoCalls
    /\ histQuery = NoHistory
    /\ sessionStorage = {}
    /\ filters = NoFilters
    /\ metrics = NoMetrics
    /\ predictions = NoPredictions
    /\ txQuery = NoTransactions
    /\ runs = <<>>
    /\ effectCalls = NoEffectCalls
    /\ security = SecurityFresh
    /\ profileQuery = NoProfile
    /\ passwordCalls = <<>>
    /\ passwordSent = 0
    /\ redirectTimers = 0
    /\ historyPage = FirstPage
    /\ historyCache = NoPages

\* FraudDetection mounts: useQuery fetches what the cache does not hold; whether a
\* cached list is fetched again is the query client's staleTime (refetch).
FraudDetectionMount(refetch) ==
    /\ Mounted = "FraudDetection"
    /\ live /= "FraudDetection"
    /\ ~recentTx.has => refetch
    /\ live' = "FraudDetection"
    /\ detect' = DetectFresh
    /\ recentTx' = IF refetch THEN [recentTx EXCEPT !.fetching = TRUE] ELSE recentTx
    /\ UNCHANGED <<localStorage, hash, lastOp, toast, isAuthenticated, security,
                   historyPage, filters, location, login, loginVars, serverVars,
                   submits, mutations, predLog, apiCalls, histQuery, seedVars,
                   pageVars>>

\* fetchTransactions({ limit: 20, skip: 0 }) answers.
RecentTxResolved ==
    /\ recentTx.fetching
    /\ recentTx' = [has |-> TRUE, ids |-> LatestIds(RecentLimit), fetching |-> FALSE,
                    error |-> FALSE]
    /\ UNCHANGED <<localStorage, hash, lastOp, toast, viewVars, loginVars, serverVars,
                   submits, mutations, predLog, apiCalls, histQuery, seedVars,
                   pageVars>>

\* The form and the dropdown are rendered once the list is no longer loading.
FormShown == Mounted = "FraudDetection" /\ live = "FraudDetection" /\ ~IsLoading(recentTx)

\* The options of the <select>: the blank one and one per listed transaction.
Options == {NoSelection} \cup {recentTx.ids[i] : i \in 1..Len(recentTx.ids)}

\* <select onChange>: setSelectedTransactionId(e.target.value).
SelectTransaction(id) ==
    /\ FormShown
    /\ id \in Options
    /\ id /= detect.selectedTransactionId
    /\ detect' = [detect EXCEPT !.selectedTransactionId = id,
                                !.chosenByUser = (id /= NoSelection)]
    /\ UNCHANGED <<localStorage, hash, lastOp, toast, isAuthenticated, security,
                   historyPage, filters, location, live, login, loginVars, serverVars,
                   detectVars, histQuery, seedVars, pageVars>>

\* predictionMutation.mutate(id): one createPrediction request.
Mutate(id, via) ==
    /\ mutations' = Append(mutations, id)
    /\ predLog' = Append(predLog, [id |-> id, via |-> via,
                                   chosen |-> (via = "selected" /\ detect.chosenByUser)])

\* handleFormSubmit that ignores the selection and always takes the manual path.
SubmitIgnoringSelection(data) ==
    /\ FormShown
    /\ apiCalls.submit < MaxSubmits
    /\ LET cardId == recentTx.has /\ Len(recentTx.ids) > 0
       IN /\ submits' = Append(submits, [pc |-> IF cardId THEN "creating" ELSE "seedOne",
                                         input |-> data])
          /\ apiCalls' = [apiCalls EXCEPT
                            !.submit = @ + 1,
                            !.seedOne = IF cardId THEN @ ELSE @ + 1,
                            !.createTransaction = IF cardId THEN @ + 1 ELSE @]
    /\ UNCHANGED <<localStorage, hash, lastOp, toast, viewVars, loginVars, serverVars,
                   recentTx, mutations, predLog, histQuery, seedVars, pageVars>>

\* FraudDetection.tsx handleFormSubmit, up to its return or its first await.
handleFormSubmit(data) ==
    /\ FormShown
    /\ apiCalls.submit < MaxSubmits
    /\ IF detect.selectedTransactionId /= NoSelection
       THEN /\ Mutate(detect.selectedTransactionId, "selected")
            /\ apiCalls' = [apiCalls EXCEPT !.submit = @ + 1, !.createPrediction = @ + 1]
            /\ UNCHANGED submits
       ELSE LET cardId == recentTx.has /\ Len(recentTx.ids) > 0
            IN /\ submits' = Append(submits,
                                    [pc |-> IF cardId THEN "creating" ELSE "seedOne",
                                     input |-> data])
               /\ apiCalls' = [apiCalls EXCEPT
                                 !.submit = @ + 1,
                                 !.seedOne = IF cardId THEN @ ELSE @ + 1,
                                 !.createTransaction = IF cardId THEN @ + 1 ELSE @]
               /\ UNCHANGED <<mutations, predLog>>
    /\ UNCHANGED <<localStorage, hash, lastOp, toast, viewVars, loginVars, serverVars,
                   recentTx, histQuery, seedVars, pageVars>>

\* handleFormSubmit after seedTransactions(1) resolved: createTransaction is called.
SeedOneResolved(i) ==
    /\ i \in 1..Len(submits)
    /\ submits[i].pc = "seedOne"
    /\ db' = Append(db, SeedTx)
    /\ submits' = [submits EXCEPT ![i].pc = "creating"]
    /\ apiCalls' = [apiCalls EXCEPT !.createTransaction = @ + 1]
    /\ UNCHANGED <<localStorage, hash, lastOp, toast, viewVars, loginVars, dbPreds,
                   recentTx, mutations, predLog, histQuery, seedVars, pageVars>>

\* handleFormSubmit's catch, reached from either await.
SubmitRejected(i) ==
    /\ i \in 1..Len(submits)
    /\ submits' = RemoveAt(submits, i)
    /\ UNCHANGED <<localStorage, hash, lastOp, toast, viewVars, loginVars, serverVars,
                   recentTx, mutations, predLog, apiCalls, histQuery, seedVars,
                   pageVars>>

\* The manual path with the prediction requested for the row before the new one.
CreateResolvedStaleId(i) ==
    /\ i \in 1..Len(submits)
    /\ submits[i].pc = "creating"
    /\ db' = Append(db, ManualTx(Payload(submits[i].input)))
    /\ submits' = RemoveAt(submits, i)
    /\ detect' = IF live = "FraudDetection"
                 THEN [detect EXCEPT !.selectedTransactionId = Len(db),
                                     !.chosenByUser = FALSE]
                 ELSE detect
    /\ Mutate(Len(db), "created")
    /\ apiCalls' = [apiCalls EXCEPT !.createPrediction = @ + 1]
    /\ UNCHANGED <<localStorage, hash, lastOp, toast, isAuthenticated, security,
                   historyPage, filters, location, live, login, loginVars, dbPreds,
                   recentTx, histQuery, seedVars, pageVars>>

\* handleFormSubmit after createTransaction resolved: created.id is selected and
\* analysed.
CreateResolved(i) ==
    /\ i \in 1..Len(submits)
    /\ submits[i].pc = "creating"
    /\ db' = Append(db, ManualTx(Payload(submits[i].input)))
    /\ submits' = RemoveAt(submits, i)
    /\ detect' = IF live = "FraudDetection"
                 THEN [detect EXCEPT !.selectedTransactionId = Len(db'),
                                     !.chosenByUser = FALSE]
                 ELSE detect
    /\ Mutate(Len(db'), "created")
    /\ apiCalls' = [apiCalls EXCEPT !.createPrediction = @ + 1]
    /\ UNCHANGED <<localStorage, hash, lastOp, toast, isAuthenticated, security,
                   historyPage, filters, location, live, login, loginVars, dbPreds,
                   recentTx, histQuery, seedVars, pageVars>>

\* History's 'prediction-created' listener, registered while the page is mounted:
\* refetch().
PredictionCreatedEvent(q) ==
    IF live = "History" THEN [q EXCEPT !.fetching = TRUE] ELSE q

\* predictionMutation.onSuccess: the server has stored the prediction.
PredictionResolved(i) ==
    /\ i \in 1..Len(mutations)
    /\ mutations' = RemoveAt(mutations, i)
    /\ dbPreds' = dbPreds + 1
    /\ histQuery' = PredictionCreatedEvent(histQuery)
    /\ UNCHANGED <<localStorage, hash, lastOp, toast, viewVars, loginVars, db,
                   recentTx, submits, predLog, apiCalls, seedVars, pageVars>>

\* predictionMutation.onError.
PredictionRejected(i) ==
    /\ i \in 1..Len(mutations)
    /\ mutations' = RemoveAt(mutations, i)
    /\ UNCHANGED <<localStorage, hash, lastOp, toast, viewVars, loginVars, serverVars,
                   recentTx, submits, predLog, apiCalls, histQuery, seedVars,
                   pageVars>>

\* History mounts: the listener is registered and useQuery fetches page 0 (always
\* when the cache is empty; otherwise as the query client's staleTime decides).
HistoryMount(refetch) ==
    /\ Mounted = "History"
    /\ live /= "History"
    /\ ~histQuery.has => refetch
    /\ live' = "History"
    /\ histQuery' = IF refetch THEN [histQuery EXCEPT !.fetching = TRUE] ELSE histQuery
    /\ UNCHANGED <<localStorage, hash, lastOp, toast, isAuthenticated, security,
                   historyPage, filters, location, login, detect, loginVars,
                   serverVars, detectVars, seedVars, pageVars>>

\* fetchPredictionHistory({ limit, offset: 0 }) answers.
HistoryResolved ==
    /\ histQuery.fetching
    /\ histQuery' = [has |-> TRUE, fetching |-> FALSE, error |-> FALSE]
    /\ UNCHANGED <<localStorage, hash, lastOp, toast, viewVars, loginVars, serverVars,
                   detectVars, seedVars, pageVars>>

DetectPaths == {"/detect", "/history"}

NextDetect ==
    \/ \E p \in DetectPaths : Navigate(p)
    \/ \E r \in BOOLEAN : FraudDetectionMount(r)
    \/ RecentTxResolved
    \/ \E id \in 0..Len(db) : SelectTransaction(id)
    \/ \E d \in FormInputs : handleFormSubmit(d)
    \/ \E i \in 1..MaxSubmits : SeedOneResolved(i)
    \/ \E i \in 1..MaxSubmits : SubmitRejected(i)
    \/ \E i \in 1..MaxSubmits : CreateResolved(i)
    \/ \E i \in 1..MaxSubmits : PredictionResolved(i)
    \/ \E i \in 1..MaxSubmits : PredictionRejected(i)
    \/ \E r \in BOOLEAN : HistoryMount(r)
    \/ HistoryResolved

SpecDetect == InitDetect /\ [][NextDetect]_vars

(***************************************************************************)
(* Dashboard.tsx and the Transactions page: the auto-seed effects.         *)
(***************************************************************************)

\* The tab of a signed-in user at /, with no rows or one legitimate row on the
\* server, in a fresh browser session.
InitSeed ==
    /\ localStorage = SignedInStorage
    /\ isAuthenticated = AuthChangedHandler(SignedInStorage)
    /\ location = "/"
    /\ hash = NoHash
    /\ live = "none"
    /\ login = LoginFresh
    /\ loginReq = NoLoginReq
    /\ loginCalls = 0
    /\ toast = "none"
    /\ lastOp = "navigate"
    /\ db \in {<<>>, <<SeedTx>>}
    /\ dbPreds = 0
    /\ detect = DetectFresh
    /\ recentTx = NoData
    /\ submits = <<>>
    /\ mutations = <<>>
    /\ predLog = <<>>
    /\ apiCalls = NoCalls
    /\ histQuery = NoHistory
    /\ sessionStorage = {}
    /\ filters = NoFilters
    /\ metrics = NoMetrics
    /\ predictions = NoPredictions
    /\ txQuery = NoTransactions
    /\ runs = <<>>
    /\ effectCalls = NoEffectCalls
    /\ security = SecurityFresh
    /\ profileQuery = NoProfile
    /\ passwordCalls = <<>>
    /\ passwordSent = 0
    /\ redirectTimers = 0
    /\ historyPage = FirstPage
    /\ historyCache = NoPages

\* localStorage.getItem("user_email") || "anon".
UserKeyPart == IF Boolean(localStorage.user_email) THEN localStorage.user_email ELSE "anon"

\* sessionStorage.getItem(seededKey) for the current user.
Seeded == UserKeyPart \in sessionStorage

\* Transactions: the queryParams memo.
queryParams(f) ==
    IF Boolean(f.status) /\ f.status /= "all"
    THEN IF f.status = "fraudulent" THEN "{is_fraud:true}" ELSE "{is_fraud:false}"
    ELSE "{}"

\* GET /transactions with these params: how many rows the server answers with.
Rows(key) ==
    Cardinality({i \in 1..Len(db) :
                   key = "{}" \/ db[i].is_fraud = (key = "{is_fraud:true}")})

\* The seed endpoint: n demo rows are added to the user's transactions.
seedTransactions(n) == db \o [j \in 1..n |-> SeedTx]

\* A run of an effect that is about to wait on its first request.
Run(page, pc, key, haveAlerts) ==
    [page |-> page, pc |-> pc, user |-> UserKeyPart, key |-> key,
     haveAlerts |-> haveAlerts, n |-> 0]

\* Dashboard's effect with metrics m and predictions p, up to its first await: the
\* runs it starts.
DashboardEffect(m, p) ==
    LET haveAlerts == p.has /\ p.data > 0
    IN IF ~m.has THEN <<>>
       ELSE IF m.data = 0 /\ ~Seeded
            THEN <<Run("Dashboard", "seed", "{}", haveAlerts)>>
            ELSE IF ~haveAlerts THEN <<Run("Dashboard", "fetchTx", "{}", haveAlerts)>>
                 ELSE <<>>

\* The Transactions effect with its query in state q, up to its first await.
TransactionsEffect(q, key) ==
    IF IsLoading(q) \/ q.fetching \/ q.error THEN <<>>
    ELSE IF q.data > 0 THEN <<>>
         ELSE IF ~Seeded THEN <<Run("Transactions", "seed", key, FALSE)>>
              ELSE <<>>

\* The runs an effect started are now in flight.
StartRuns(new) ==
    /\ Len(new) > 0 => effectCalls.run < MaxRuns
    /\ runs' = runs \o new
    /\ effectCalls' =
           [run |-> effectCalls.run + Len(new),
            seed |-> effectCalls.seed
                       + Cardinality({i \in 1..Len(new) : new[i].pc = "seed"})]

\* Dashboard mounts: its queries fetch what the cache does not hold (and what is
\* stale), and the effect runs on what the cache holds.
DashboardMount(rm, rp) ==
    /\ Mounted = "Dashboard"
    /\ live /= "Dashboard"
    /\ ~metrics.has => rm
    /\ ~predictions.has => rp
    /\ live' = "Dashboard"
    /\ metrics' = IF rm THEN [metrics EXCEPT !.fetching = TRUE] ELSE metrics
    /\ predictions' = IF rp THEN [predictions EXCEPT !.fetching = TRUE] ELSE predictions
    /\ StartRuns(DashboardEffect(metrics', predictions'))
    /\ UNCHANGED <<localStorage, hash, toast, lastOp, isAuthenticated, security,
                   historyPage, location, login, detect, filters, loginVars,
                   serverVars, detectVars, histQuery, sessionStorage, txQuery,
                   pageVars>>

\* fetchDashboardMetrics(30) answers; the effect runs if the data is new.
MetricsResolved ==
    /\ metrics.fetching
    /\ metrics' = [has |-> TRUE, data |-> Len(db), fetching |-> FALSE, error |-> FALSE]
    /\ StartRuns(IF live = "Dashboard" /\ (~metrics.has \/ metrics'.data /= metrics.data)
                 THEN DashboardEffect(metrics', predictions)
                 ELSE <<>>)
    /\ UNCHANGED <<localStorage, hash, toast, lastOp, viewVars, loginVars, serverVars,
                   detectVars, histQuery, sessionStorage, predictions, txQuery,
                   pageVars>>

\* fetchPredictionHistory({ limit: 8, offset: 0 }) answers; the effect runs if the
\* data is new.
PredictionsResolved ==
    /\ predictions.fetching
    /\ predictions' = [has |-> TRUE, data |-> Min(AlertsLimit, dbPreds),
                       fetching |-> FALSE, error |-> FALSE]
    /\ StartRuns(IF live = "Dashboard"
                    /\ (~predictions.has \/ predictions'.data /= predictions.data)
                 THEN DashboardEffect(metrics, predictions')
                 ELSE <<>>)
    /\ UNCHANGED <<localStorage, hash, toast, lastOp, viewVars, loginVars, serverVars,
                   detectVars, histQuery, sessionStorage, metrics, txQuery, pageVars>>

\* Dashboard's refetchInterval timers (60 s for the metrics, 30 s for the
\* predictions).
DashboardRefetch(rm, rp) ==
    /\ live = "Dashboard"
    /\ rm \/ rp
    /\ rm => metrics.has /\ ~metrics.fetching
    /\ rp => predictions.has /\ ~predictions.fetching
    /\ metrics' = IF rm THEN [metrics EXCEPT !.fetching = TRUE] ELSE metrics
    /\ predictions' = IF rp THEN [predictions EXCEPT !.fetching = TRUE] ELSE predictions
    /\ UNCHANGED <<localStorage, hash, toast, lastOp, viewVars, loginVars, serverVars,
                   detectVars, histQuery, sessionStorage, txQuery, runs, effectCalls,
                   pageVars>>

\* Transactions mounts with filters = {}: the query fetches what the cache does not
\* hold (and what is stale), and the effect runs on what the cache holds.
TransactionsMount(refetch) ==
    /\ Mounted = "Transactions"
    /\ live /= "Transactions"
    /\ LET key == queryParams(NoFilters)
           q == IF refetch THEN [txQuery[key] EXCEPT !.fetching = TRUE] ELSE txQuery[key]
       IN /\ ~txQuery[key].has => refetch
          /\ txQuery' = [txQuery EXCEPT ![key] = q]
          /\ StartRuns(TransactionsEffect(q, key))
    /\ live' = "Transactions"
    /\ filters' = NoFilters
    /\ UNCHANGED <<localStorage, hash, toast, lastOp, isAuthenticated, security,
                   historyPage, location, login, detect, loginVars, serverVars,
                   detectVars, histQuery, sessionStorage, metrics, predictions,
                   pageVars>>

\* fetchTransactions(queryParams) answers for the query with these params; the effect
\* runs if it is the query the page shows.
TransactionsResolved(key) ==
    /\ txQuery[key].fetching
    /\ LET q == [has |-> TRUE, data |-> Rows(key), fetching |-> FALSE, error |-> FALSE]
       IN /\ txQuery' = [txQuery EXCEPT ![key] = q]
          /\ StartRuns(IF live = "Transactions" /\ key = queryParams(filters)
                       THEN TransactionsEffect(q, key)
                       ELSE <<>>)
    /\ UNCHANGED <<localStorage, hash, toast, lastOp, viewVars, loginVars, serverVars,
                   detectVars, histQuery, sessionStorage, metrics, predictions,
                   pageVars>>

\* fetchTransactions(queryParams) fails: isError, and the effect returns at once.
TransactionsRejected(key) ==
    /\ txQuery[key].fetching
    /\ txQuery' = [txQuery EXCEPT ![key].fetching = FALSE, ![key].error = TRUE]
    /\ UNCHANGED <<localStorage, hash, toast, lastOp, viewVars, loginVars, serverVars,
                   detectVars, histQuery, sessionStorage, metrics, predictions, runs,
                   effectCalls, pageVars>>

\* The Refresh button (disabled while isLoading or isFetching) and the 30 s
\* refetchInterval: refetch(); the effect runs with isFetching and returns at once.
TransactionsRefetch ==
    /\ live = "Transactions"
    /\ LET key == queryParams(filters)
       IN /\ ~IsLoading(txQuery[key])
          /\ ~txQuery[key].fetching
          /\ txQuery' = [txQuery EXCEPT ![key].fetching = TRUE]
    /\ UNCHANGED <<localStorage, hash, toast, lastOp, viewVars, loginVars, serverVars,
                   detectVars, histQuery, sessionStorage, metrics, predictions, runs,
                   effectCalls, pageVars>>

\* TransactionFilters handleApplyFilters -> setFilters: with new queryParams the
\* page shows another query, fetched if not cached (or stale), and the effect runs
\* on it.
handleApplyFilters(status, refetch) ==
    /\ live = "Transactions"
    /\ filters' = [status |-> status]
    /\ LET key == queryParams(filters')
           q == IF refetch THEN [txQuery[key] EXCEPT !.fetching = TRUE] ELSE txQuery[key]
       IN IF key = queryParams(filters)
          THEN /\ ~refetch
               /\ UNCHANGED <<txQuery, runs, effectCalls>>
          ELSE /\ ~txQuery[key].has => refetch
               /\ txQuery' = [txQuery EXCEPT ![key] = q]
               /\ StartRuns(TransactionsEffect(q, key))
    /\ UNCHANGED <<localStorage, hash, toast, lastOp, isAuthenticated, security,
                   historyPage, location, live, login, detect, loginVars, serverVars,
                   detectVars, histQuery, sessionStorage, metrics, predictions,
                   pageVars>>

\* What follows the await of seedTransactions(30) in either effect: the finally
\* block sets the marker; Transactions then awaits refetch(), the Dashboard goes on
\* to its alerts.
SeedSettled(i) ==
    /\ sessionStorage' = sessionStorage \cup {runs[i].user}
    /\ IF runs[i].page = "Transactions"
       THEN /\ runs' = RemoveAt(runs, i)
            /\ LET key == IF live = "Transactions" THEN queryParams(filters)
                          ELSE runs[i].key
               IN txQuery' = [txQuery EXCEPT ![key].fetching = TRUE]
       ELSE /\ runs' = IF runs[i].haveAlerts THEN RemoveAt(runs, i)
                       ELSE [runs EXCEPT ![i].pc = "fetchTx"]
            /\ UNCHANGED txQuery

\* seedTransactions(30) resolved.
SeedResolved(i) ==
    /\ i \in 1..Len(runs)
    /\ runs[i].pc = "seed"
    /\ db' = seedTransactions(SeedCount)
    /\ SeedSettled(i)
    /\ UNCHANGED <<localStorage, hash, toast, lastOp, viewVars, loginVars, dbPreds,
                   detectVars, histQuery, metrics, predictions, effectCalls, pageVars>>

\* The rejection path of the seed attempt without the finally block's marker.
SeedRejectedNoMarker(i) ==
    /\ i \in 1..Len(runs)
    /\ runs[i].pc = "seed"
    /\ runs' = IF runs[i].page = "Transactions" \/ runs[i].haveAlerts
               THEN RemoveAt(runs, i)
               ELSE [runs EXCEPT ![i].pc = "fetchTx"]
    /\ UNCHANGED <<localStorage, hash, toast, lastOp, viewVars, loginVars, serverVars,
                   detectVars, histQuery, metrics, predictions, effectCalls, pageVars,
                   sessionStorage, txQuery>>

\* seedTransactions(30) rejected: the catch logs.
SeedRejected(i) ==
    /\ i \in 1..Len(runs)
    /\ runs[i].pc = "seed"
    /\ SeedSettled(i)
    /\ UNCHANGED <<localStorage, hash, toast, lastOp, viewVars, loginVars, serverVars,
                   detectVars, histQuery, metrics, predictions, effectCalls, pageVars>>

\* Dashboard's effect after fetchTransactions({ limit: 20 }) resolved.
BatchIdsResolved(i) ==
    /\ i \in 1..Len(runs)
    /\ runs[i].pc = "fetchTx"
    /\ LET n == Min(BatchLimit, Len(db))
       IN runs' = IF n > 0 THEN [runs EXCEPT ![i].pc = "batch", ![i].n = n]
                  ELSE RemoveAt(runs, i)
    /\ UNCHANGED <<localStorage, hash, toast, lastOp, viewVars, loginVars, serverVars,
                   detectVars, histQuery, sessionStorage, queryVars, effectCalls,
                   pageVars>>

\* createBatchPredictions({ transaction_ids: ids }) resolved.
BatchResolved(i) ==
    /\ i \in 1..Len(runs)
    /\ runs[i].pc = "batch"
    /\ dbPreds' = dbPreds + runs[i].n
    /\ runs' = RemoveAt(runs, i)
    /\ UNCHANGED <<localStorage, hash, toast, lastOp, viewVars, loginVars, db,
                   detectVars, histQuery, sessionStorage, queryVars, effectCalls,
                   pageVars>>

\* Dashboard's effect: the catch around the alerts part.
BatchRejected(i) ==
    /\ i \in 1..Len(runs)
    /\ runs[i].pc \in {"fetchTx", "batch"}
    /\ runs' = RemoveAt(runs, i)
    /\ UNCHANGED <<localStorage, hash, toast, lastOp, viewVars, loginVars, serverVars,
                   detectVars, histQuery, sessionStorage, queryVars, effectCalls,
                   pageVars>>

SeedPaths == {"/", "/transactions"}

NextSeed ==
    \/ \E p \in SeedPaths : Navigate(p)
    \/ \E rm \in BOOLEAN, rp \in BOOLEAN : DashboardMount(rm, rp)
    \/ MetricsResolved
    \/ PredictionsResolved
    \/ \E rm \in BOOLEAN, rp \in BOOLEAN : DashboardRefetch(rm, rp)
    \/ \E r \in BOOLEAN : TransactionsMount(r)
    \/ \E k \in QueryKeys : TransactionsResolved(k)
    \/ \E k \in QueryKeys : TransactionsRejected(k)
    \/ TransactionsRefetch
    \/ \E s \in StatusInputs, r \in BOOLEAN : handleApplyFilters(s, r)
    \/ \E i \in 1..MaxRuns : SeedResolved(i)
    \/ \E i \in 1..MaxRuns : SeedRejected(i)
    \/ \E i \in 1..MaxRuns : BatchIdsResolved(i)
    \/ \E i \in 1..MaxRuns : BatchResolved(i)
    \/ \E i \in 1..MaxRuns : BatchRejected(i)

SpecSeed == InitSeed /\ [][NextSeed]_vars

(***************************************************************************)
(* The Profile page: the Security tab.                                     *)
(***************************************************************************)

\* What the user types into a password field: "Ab1!", "password" or "Passw0rd!".
ShortPassword == <<"A", "b", "1", "!">>

WeakPassword == <<"p", "a", "s", "s", "w", "o", "r", "d">>

StrongPassword == <<"P", "a", "s", "s", "w", "0", "r", "d", "!">>

PasswordInputs == {ShortPassword, WeakPassword, StrongPassword}

\* What is typed into which field: the current password is "password".
FieldInputs(field) ==
    IF field = "currentPassword" THEN {WeakPassword} ELSE PasswordInputs

PasswordFields == {"currentPassword", "newPassword", "confirmPassword"}

\* The tab of a signed-in user at /profile.
InitProfile ==
    /\ localStorage = SignedInStorage
    /\ isAuthenticated = AuthChangedHandler(SignedInStorage)
    /\ location = "/profile"
    /\ hash = NoHash
    /\ live = "none"
    /\ login = LoginFresh
    /\ loginReq = NoLoginReq
    /\ loginCalls = 0
    /\ toast = "none"
    /\ lastOp = "navigate"
    /\ db = <<>>
    /\ dbPreds = 0
    /\ detect = DetectFresh
    /\ recentTx = NoData
    /\ submits = <<>>
    /\ mutations = <<>>
    /\ predLog = <<>>
    /\ apiCalls = NoCalls
    /\ histQuery = NoHistory
    /\ sessionStorage = {}
    /\ filters = NoFilters
    /\ metrics = NoMetrics
    /\ predictions = NoPredictions
    /\ txQuery = NoTransactions
    /\ runs = <<>>
    /\ effectCalls = NoEffectCalls
    /\ security = SecurityFresh
    /\ profileQuery = NoProfile
    /\ passwordCalls = <<>>
    /\ passwordSent = 0
    /\ redirectTimers = 0
    /\ historyPage = FirstPage
    /\ historyCache = NoPages

\* Profile mounts: fresh fields and a fresh mutation observer (requests of an earlier
\* mount are no longer observed), and useQuery fetches the profile.
ProfileMount(refetch) ==
    /\ Mounted = "Profile"
    /\ live /= "Profile"
    /\ ~profileQuery.has => refetch
    /\ live' = "Profile"
    /\ security' = SecurityFresh
    /\ profileQuery' = IF refetch THEN [profileQuery EXCEPT !.fetching = TRUE]
                       ELSE profileQuery
    /\ passwordCalls' = [i \in 1..Len(passwordCalls) |->
                           [passwordCalls[i] EXCEPT !.observed = FALSE]]
    /\ UNCHANGED <<localStorage, hash, toast, lastOp, isAuthenticated, location, login,
                   detect, filters, historyPage, loginVars, serverVars, detectVars,
                   histQuery, seedVars, passwordSent, redirectTimers, historyCache>>

\* fetchUserProfile settles (resolved or rejected).
ProfileSettled(ok) ==
    /\ profileQuery.fetching
    /\ profileQuery' = [has |-> profileQuery.has \/ ok, fetching |-> FALSE]
    /\ UNCHANGED <<localStorage, hash, toast, lastOp, viewVars, loginVars, serverVars,
                   detectVars, histQuery, seedVars, passwordCalls, passwordSent,
                   redirectTimers, historyCache>>

\* if (profileLoading) return <Skeleton/>: the forms are rendered otherwise.
SecurityFormShown ==
    /\ live = "Profile"
    /\ ~(profileQuery.fetching /\ ~profileQuery.has)

\* changePasswordMutation.isPending, as the mounted component sees it.
isPending == \E i \in 1..Len(passwordCalls) : passwordCalls[i].observed

\* The password inputs' onChange.
SetPasswordField(field, value) ==
    /\ SecurityFormShown
    /\ security' = [security EXCEPT ![field] = value]
    /\ UNCHANGED <<localStorage, hash, toast, lastOp, isAuthenticated, location, live,
                   login, detect, filters, historyPage, loginVars, serverVars,
                   detectVars, histQuery, seedVars, pageVars>>

\* The Security tab's Cancel button.
CancelSecurity ==
    /\ SecurityFormShown
    /\ security' = SecurityFresh
    /\ UNCHANGED <<localStorage, hash, toast, lastOp, isAuthenticated, location, live,
                   login, detect, filters, historyPage, loginVars, serverVars,
                   detectVars, histQuery, seedVars, pageVars>>

\* handleSaveSecurity that sends whatever the fields hold.
handleSaveSecurityUnchecked ==
    /\ SecurityFormShown
    /\ ~isPending
    /\ \A f \in PasswordFields : Len(security[f]) > 0
    /\ passwordSent < MaxPasswordCalls
    /\ LET payload == [current_password |-> security.currentPassword,
                       new_password |-> security.newPassword]
       IN /\ passwordCalls' = Append(passwordCalls,
                                     [payload |-> payload, observed |-> TRUE])
          /\ passwordSent' = passwordSent + 1
          /\ UNCHANGED toast
    /\ UNCHANGED <<localStorage, hash, lastOp, viewVars, loginVars, serverVars,
                   detectVars, histQuery, seedVars, profileQuery, redirectTimers,
                   historyCache>>

\* handleSaveSecurity: the form's submit handler. The browser submits only when the
\* required fields are filled and the button is not disabled (isPending).
handleSaveSecurity ==
    /\ SecurityFormShown
    /\ ~isPending
    /\ \A f \in PasswordFields : Len(security[f]) > 0
    /\ passwordSent < MaxPasswordCalls
    /\ IF security.newPassword /= security.confirmPassword
       THEN /\ toast' = "Password mismatch"
            /\ UNCHANGED <<passwordCalls, passwordSent>>
       ELSE IF Len(security.newPassword) < MinPasswordLength
            THEN /\ toast' = "Password too short"
                 /\ UNCHANGED <<passwordCalls, passwordSent>>
            ELSE LET payload == [current_password |-> security.currentPassword,
                                 new_password |-> security.newPassword]
                 IN /\ passwordCalls' = Append(passwordCalls,
                                               [payload |-> payload, observed |-> TRUE])
                    /\ passwordSent' = passwordSent + 1
                    /\ UNCHANGED toast
    /\ UNCHANGED <<localStorage, hash, lastOp, viewVars, loginVars, serverVars,
                   detectVars, histQuery, seedVars, profileQuery, redirectTimers,
                   historyCache>>

\* changePasswordMutation.onSuccess: the fields of the component that sent the request
\* are cleared, the toast is shown and the redirect is scheduled.
ChangePasswordResolved(i) ==
    /\ i \in 1..Len(passwordCalls)
    /\ security' = IF passwordCalls[i].observed /\ live = "Profile" THEN SecurityFresh
                   ELSE security
    /\ toast' = "Password changed"
    /\ redirectTimers' = redirectTimers + 1
    /\ passwordCalls' = RemoveAt(passwordCalls, i)
    /\ UNCHANGED <<localStorage, hash, lastOp, isAuthenticated, location, live, login,
                   detect, filters, historyPage, loginVars, serverVars, detectVars,
                   histQuery, seedVars, profileQuery, passwordSent, historyCache>>

\* changePasswordMutation.onError.
ChangePasswordRejected(i) ==
    /\ i \in 1..Len(passwordCalls)
    /\ toast' = "Password change failed"
    /\ passwordCalls' = RemoveAt(passwordCalls, i)
    /\ UNCHANGED <<localStorage, hash, lastOp, viewVars, loginVars, serverVars,
                   detectVars, histQuery, seedVars, profileQuery, passwordSent,
                   redirectTimers, historyCache>>

\* The setTimeout callback, 2 s after onSuccess: window.location.href = "/login", a
\* page load of /login with the storage as it is.
PasswordRedirect ==
    /\ redirectTimers > 0
    /\ isAuthenticated' = Boolean(localStorage.access_token)
    /\ location' = "/login"
    /\ hash' = NoHash
    /\ MemoryLost
    /\ lastOp' = "passwordRedirect"
    /\ UNCHANGED <<localStorage, sessionStorage, loginCalls, serverVars, predLog,
                   apiCalls, effectCalls, passwordSent>>

ProfilePaths == {"/", "/profile"}

NextProfile ==
    \/ \E p \in ProfilePaths : Navigate(p)
    \/ RedirectEffect
    \/ \E r \in BOOLEAN : ProfileMount(r)
    \/ \E ok \in BOOLEAN : ProfileSettled(ok)
    \/ \E f \in PasswordFields : \E v \in FieldInputs(f) : SetPasswordField(f, v)
    \/ CancelSecurity
    \/ handleSaveSecurity
    \/ \E i \in 1..MaxPasswordCalls : ChangePasswordResolved(i)
    \/ \E i \in 1..MaxPasswordCalls : ChangePasswordRejected(i)
    \/ PasswordRedirect

SpecProfile == InitProfile /\ [][NextProfile]_vars

(***************************************************************************)
(* History.tsx: the pages of the prediction history.                       *)
(***************************************************************************)

\* How many predictions the server holds for the user in a behaviour.
PredictionTotals == {0, 20, 21, 45}

\* A page of the history nobody has fetched yet.
NoPage == [has |-> FALSE, predictions |-> <<>>, has_more |-> FALSE, fetching |-> FALSE,
           error |-> FALSE, request |-> Null]

\* The tab of a signed-in user at /history.
InitHistory ==
    /\ localStorage = SignedInStorage
    /\ isAuthenticated = AuthChangedHandler(SignedInStorage)
    /\ location = "/history"
    /\ hash = NoHash
    /\ live = "none"
    /\ login = LoginFresh
    /\ loginReq = NoLoginReq
    /\ loginCalls = 0
    /\ toast = "none"
    /\ lastOp = "navigate"
    /\ db = <<>>
    /\ dbPreds \in PredictionTotals
    /\ detect = DetectFresh
    /\ recentTx = NoData
    /\ submits = <<>>
    /\ mutations = <<>>
    /\ predLog = <<>>
    /\ apiCalls = NoCalls
    /\ histQuery = NoHistory
    /\ sessionStorage = {}
    /\ filters = NoFilters
    /\ metrics = NoMetrics
    /\ predictions = NoPredictions
    /\ txQuery = NoTransactions
    /\ runs = <<>>
    /\ effectCalls = NoEffectCalls
    /\ security = SecurityFresh
    /\ profileQuery = NoProfile
    /\ passwordCalls = <<>>
    /\ passwordSent = 0
    /\ redirectTimers = 0
    /\ historyPage = FirstPage
    /\ historyCache = NoPages

\* The cached query of a page.
Entry(page) == IF page \in DOMAIN historyCache THEN historyCache[page] ELSE NoPage

\* Math.max(0, p - 1).
Max(a, b) == IF a > b THEN a ELSE b

\* The queryFn with the offset taken to be the page index.
HistoryRequestUnscaled(page) == [limit |-> limit, offset |-> page]

\* queryFn: fetchPredictionHistory({ limit, offset: page * limit }).
HistoryRequest(page) == [limit |-> limit, offset |-> page * limit]

\* GET /predictions/history: the predictions from the offset on, newest first (a
\* prediction is named by its rank), at most limit of them, and whether more follow.
PredictionHistory(request) ==
    LET n == Max(0, Min(request.limit, dbPreds - request.offset))
    IN [predictions |-> [i \in 1..n |-> request.offset + i],
        has_more |-> request.offset + n < dbPreds]

\* historyData: one record per prediction of the page's data.
historyData(data) ==
    [i \in 1..Len(data) |-> [transactionId |-> data[i], prediction |-> data[i]]]

\* useQuery starts a fetch of a page's query.
FetchPage(page) ==
    historyCache' = (page :> [Entry(page) EXCEPT !.fetching = TRUE,
                                                 !.request = HistoryRequest(page)])
                    @@ historyCache

\* useQuery for the page shown: fetched when not cached, and when stale.
ObservePage(page, refetch) ==
    /\ ~Entry(page).has => refetch
    /\ IF refetch THEN FetchPage(page) ELSE UNCHANGED historyCache

\* History mounts on page 0.
HistoryPagesMount(refetch) ==
    /\ Mounted = "History"
    /\ live /= "History"
    /\ live' = "History"
    /\ historyPage' = FirstPage
    /\ ObservePage(FirstPage, refetch)
    /\ UNCHANGED <<localStorage, hash, toast, lastOp, isAuthenticated, location, login,
                   detect, filters, security, loginVars, serverVars, detectVars,
                   histQuery, seedVars, profileQuery, passwordCalls, passwordSent,
                   redirectTimers>>

\* The request of a page is answered.
HistoryPageResolved(page) ==
    /\ page \in DOMAIN historyCache
    /\ historyCache[page].fetching
    /\ LET answer == PredictionHistory(historyCache[page].request)
       IN historyCache' = [historyCache EXCEPT ![page] =
              [has |-> TRUE, predictions |-> answer.predictions,
               has_more |-> answer.has_more, fetching |-> FALSE, error |-> FALSE,
               request |-> historyCache[page].request]]
    /\ UNCHANGED <<localStorage, hash, toast, lastOp, viewVars, loginVars, serverVars,
                   detectVars, histQuery, seedVars, profileQuery, passwordCalls,
                   passwordSent, redirectTimers>>

\* The request of a page fails: isError, the data of the page is kept.
HistoryPageRejected(page) ==
    /\ page \in DOMAIN historyCache
    /\ historyCache[page].fetching
    /\ historyCache' = [historyCache EXCEPT ![page].fetching = FALSE,
                                            ![page].error = TRUE]
    /\ UNCHANGED <<localStorage, hash, toast, lastOp, viewVars, loginVars, serverVars,
                   detectVars, histQuery, seedVars, profileQuery, passwordCalls,
                   passwordSent, redirectTimers>>

\* refetch(): the 60 s refetchInterval, the Try again button, the
\* 'prediction-created' listener.
HistoryRefetch ==
    /\ live = "History"
    /\ ~Entry(historyPage).fetching
    /\ FetchPage(historyPage)
    /\ UNCHANGED <<localStorage, hash, toast, lastOp, viewVars, loginVars, serverVars,
                   detectVars, histQuery, seedVars, profileQuery, passwordCalls,
                   passwordSent, redirectTimers>>

\* {data && data.has_more && ...}: the Previous / Next controls are rendered.
ControlsShown ==
    /\ live = "History"
    /\ Entry(historyPage).has
    /\ Entry(historyPage).has_more

\* Previous (disabled on page 0): setPage(p => Math.max(0, p - 1)).
PreviousClick(refetch) ==
    /\ ControlsShown
    /\ historyPage /= 0
    /\ historyPage' = Max(0, historyPage - 1)
    /\ ObservePage(historyPage', refetch)
    /\ UNCHANGED <<localStorage, hash, toast, lastOp, isAuthenticated, location, live,
                   login, detect, filters, security, loginVars, serverVars, detectVars,
                   histQuery, seedVars, profileQuery, passwordCalls, passwordSent,
                   redirectTimers>>

\* Next (disabled unless data.has_more): setPage(p => p + 1).
NextClick(refetch) ==
    /\ ControlsShown
    /\ Entry(historyPage).has_more
    /\ historyPage' = historyPage + 1
    /\ ObservePage(historyPage', refetch)
    /\ UNCHANGED <<localStorage, hash, toast, lastOp, isAuthenticated, location, live,
                   login, detect, filters, security, loginVars, serverVars, detectVars,
                   histQuery, seedVars, profileQuery, passwordCalls, passwordSent,
                   redirectTimers>>

HistoryPaths == {"/", "/history"}

\* The pages a request can be in flight for.
HistoryPages == 0..3

NextHistory ==
    \/ \E p \in HistoryPaths : Navigate(p)
    \/ \E r \in BOOLEAN : HistoryPagesMount(r)
    \/ \E p \in HistoryPages : HistoryPageResolved(p)
    \/ \E p \in HistoryPages : HistoryPageRejected(p)
    \/ HistoryRefetch
    \/ \E r \in BOOLEAN : PreviousClick(r)
    \/ \E r \in BOOLEAN : NextClick(r)

SpecHistory == InitHistory /\ [][NextHistory]_vars

(***************************************************************************)
(* Claims about the App shell, Login and ProfileDropdown (Spec).           *)
(***************************************************************************)

HasToken == Boolean(localStorage.access_token)

\* C1: the authenticated route tree is rendered only while isAuthenticated is
\* true; right after a login, an OAuth callback or a logout isAuthenticated
\* equals "localStorage holds a non-empty access_token"; and while it is false
\* every path other than /login renders the redirect, whose effect lands on /login.
C1_AuthGate ==
    /\ Mounted \in AuthPages \cup {"NotFound", "RedirectHome"} => isAuthenticated
    /\ lastOp \in {"loginOk", "oauth", "logout"} => isAuthenticated = HasToken
    /\ (~isAuthenticated /\ location /= "/login") => Mounted = "RedirectLogin"
    /\ (~isAuthenticated /\ lastOp = "redirect") => location = "/login"

C1_Witness ==
    /\ lastOp = "oauth"
    /\ isAuthenticated
    /\ HasToken
    /\ Mounted = "Dashboard"
    /\ localStorage.remembered_email /= Null

\* C8: when login() resolves, the tokens are in storage when 'auth-changed' is
\* handled, so the app is authenticated at "/" showing the Dashboard; and /login
\* while authenticated renders the redirect, whose effect lands on "/".
C8_LoginSettlesHome ==
    /\ lastOp = "loginOk" =>
          /\ HasToken
          /\ Boolean(localStorage.refresh_token)
          /\ isAuthenticated
          /\ location = "/"
          /\ Mounted = "Dashboard"
    /\ (isAuthenticated /\ location = "/login") => Mounted = "RedirectHome"
    /\ (isAuthenticated /\ lastOp = "redirect") => location = "/"

C8_Witness ==
    /\ lastOp = "loginOk"
    /\ Mounted = "Dashboard"
    /\ localStorage.access_token = "jwt.pw"

\* C9: when login() rejects, storage (tokens, remembered_email) is untouched, the
\* auth state is not changed, the location stays /login, the toast is 'Login
\* failed', no further login() request is issued by the handler; and once no
\* attempt is in flight the Login page's isLoading is false.
C9_LoginFailure ==
    /\ [][lastOp' = "loginFailed" =>
            /\ localStorage' = localStorage
            /\ isAuthenticated' = isAuthenticated
            /\ location' = location
            /\ location' = "/login"
            /\ toast' = "Login failed"
            /\ loginCalls' = loginCalls
            /\ ~loginReq'.pending]_vars
    /\ []((live = "Login" /\ ~loginReq.pending) => ~login.isLoading)
    /\ [](login.isLoading => loginReq.pending)

C9_Witness ==
    /\ lastOp = "loginFailed"
    /\ toast = "Login failed"
    /\ live = "Login"
    /\ ~login.isLoading
    /\ login.rememberMe
    /\ localStorage.remembered_email = Null

\* C10: after handleLogout the tokens are gone, isAuthenticated is false and the
\* Login page is what /login shows; isAuthenticated turns true again only by a
\* login that resolved or an OAuth callback, with an access token in storage, and
\* no authenticated page is rendered while it is false.
C10_Logout ==
    /\ [](lastOp = "logout" =>
            /\ ~HasToken
            /\ ~Boolean(localStorage.refresh_token)
            /\ ~isAuthenticated
            /\ location = "/login"
            /\ Mounted = "Login")
    /\ [](~isAuthenticated => Mounted \notin AuthPages)
    /\ [][(~isAuthenticated /\ isAuthenticated') =>
            (lastOp' \in {"loginOk", "oauth"} /\ Boolean(localStorage'.access_token))]_vars

C10_Witness ==
    /\ lastOp = "logout"
    /\ Mounted = "Login"
    /\ ~isAuthenticated
    /\ ~HasToken
    /\ loginCalls >= 1

(***************************************************************************)
(* Claims about FraudDetection and History (SpecDetect).                   *)
(***************************************************************************)

\* A step in which the Fraud Detection form is submitted.
SubmitStep == apiCalls'.submit = apiCalls.submit + 1

\* A step in which a createPrediction request succeeds (onSuccess dispatches
\* 'prediction-created').
PredictionCreatedStep == dbPreds' = dbPreds + 1

\* C4 (as claimed): every successful createPrediction dispatches
\* 'prediction-created' and the History page refetches its page in response to
\* every such event.
C4_EveryPredictionRefetchesHistory ==
    [][PredictionCreatedStep => histQuery'.fetching]_vars

\* C5: a submission with a transaction selected issues exactly one
\* createPrediction request, for the selected id, and calls neither
\* createTransaction nor seedTransactions nor touches the server's rows.
C5_SelectedSubmit ==
    [][(SubmitStep /\ detect.selectedTransactionId /= NoSelection) =>
          /\ mutations' = Append(mutations, detect.selectedTransactionId)
          /\ Len(predLog') = Len(predLog) + 1
          /\ predLog'[Len(predLog')].id = detect.selectedTransactionId
          /\ apiCalls'.createPrediction = apiCalls.createPrediction + 1
          /\ apiCalls'.createTransaction = apiCalls.createTransaction
          /\ apiCalls'.seedOne = apiCalls.seedOne
          /\ submits' = submits
          /\ db' = db]_vars

C5_Witness ==
    /\ Len(predLog) = 1
    /\ predLog[1].via = "selected"
    /\ predLog[1].chosen
    /\ predLog[1].id = detect.selectedTransactionId
    /\ apiCalls.createTransaction = 0
    /\ apiCalls.seedOne = 0
    /\ apiCalls.createPrediction = 1

\* C6 (as claimed): every submission made without a choice in the dropdown creates
\* a new transaction and analyses that one, the second and later ones included.
C6_ManualAlwaysCreates ==
    \A i \in 1..Len(predLog) : ~predLog[i].chosen => predLog[i].via = "created"

\* C7: every createPrediction request names one existing transaction: the id
\* selected when the form was submitted, or the id of the row a createTransaction
\* call has just returned; a failed seed or creation requests no prediction.
C7_PredictionsReferenceTransactions ==
    /\ [](\A i \in 1..Len(predLog) :
            /\ predLog[i].id /= NoSelection
            /\ predLog[i].id \in 1..Len(db)
            /\ predLog[i].via = "created" => db[predLog[i].id].kind = "manual")
    /\ [](Len(predLog) = apiCalls.createPrediction)
    /\ [][Len(predLog') /= Len(predLog) =>
            /\ Len(predLog') = Len(predLog) + 1
            /\ LET e == predLog'[Len(predLog')]
               IN \/ e.via = "selected" /\ e.id = detect.selectedTransactionId
                  \/ /\ e.via = "created"
                     /\ Len(db') = Len(db) + 1
                     /\ e.id = Len(db')
                     /\ Len(submits') = Len(submits) - 1]_vars
    /\ [][(Len(submits') < Len(submits) /\ db' = db) =>
            (predLog' = predLog /\ mutations' = mutations)]_vars

C7_Witness ==
    /\ Len(predLog) = 2
    /\ predLog[1].via = "created"
    /\ db[predLog[1].id].merchant_name = "Kirana"
    /\ predLog[2].via = "selected"
    /\ predLog[2].chosen
    /\ predLog[2].id /= predLog[1].id

(***************************************************************************)
(* Claims about the History page (SpecHistory).                            *)
(***************************************************************************)

C11_ReloginAfterPasswordChange ==
    lastOp = "passwordRedirect" => (~isAuthenticated /\ Mounted = "Login")

\* A step in which a changePassword request is sent.
ChangePasswordStep == Len(passwordCalls') > Len(passwordCalls)

\* A step in which handleSaveSecurity shows one of its two destructive toasts.
SaveRefusedStep ==
    /\ toast' \in {"Password mismatch", "Password too short"}
    /\ toast' /= toast

\* C12: handleSaveSecurity sends a changePassword request only when newPassword
\* equals confirmPassword and has at least 8 characters, and then with the fields'
\* values; when it refuses, it sends nothing, shows its toast and leaves the three
\* password fields as they are.
C12_SaveSecurityValidates ==
    /\ [][ChangePasswordStep =>
            /\ security.newPassword = security.confirmPassword
            /\ Len(security.newPassword) >= 8
            /\ passwordSent' = passwordSent + 1
            /\ passwordCalls'[Len(passwordCalls')].payload =
                   [current_password |-> security.currentPassword,
                    new_password |-> security.newPassword]]_vars
    /\ [][SaveRefusedStep =>
            /\ \/ security.newPassword /= security.confirmPassword
               \/ Len(security.newPassword) < 8
            /\ passwordCalls' = passwordCalls
            /\ passwordSent' = passwordSent
            /\ security' = security]_vars
    /\ [][passwordSent' /= passwordSent => ChangePasswordStep]_vars

C12_Witness ==
    /\ toast = "Password too short"
    /\ security.newPassword = ShortPassword
    /\ security.confirmPassword = ShortPassword
    /\ passwordSent = 1
    /\ passwordCalls = <<>>

UppercaseLetters == {"A", "B", "C", "D", "E", "F", "G", "H", "I", "J", "K", "L", "M",
                     "N", "O", "P", "Q", "R", "S", "T", "U", "V", "W", "X", "Y", "Z"}

LowercaseLetters == {"a", "b", "c", "d", "e", "f", "g", "h", "i", "j", "k", "l", "m",
                     "n", "o", "p", "q", "r", "s", "t", "u", "v", "w", "x", "y", "z"}

Digits == {"0", "1", "2", "3", "4", "5", "6", "7", "8", "9"}

\* The four Password Requirements listed on the Security tab.
MeetsPasswordRequirements(pw) ==
    LET chars == {pw[i] : i \in 1..Len(pw)}
    IN /\ Len(pw) >= 8
       /\ chars \cap UppercaseLetters /= {}
       /\ chars \cap LowercaseLetters /= {}
       /\ chars \cap Digits /= {}
       /\ chars \ (UppercaseLetters \cup LowercaseLetters \cup Digits) /= {}

\* C13 (as claimed): every new password sent in a changePassword request meets the
\* four Password Requirements of the Security tab.
C13_SentPasswordsMeetRequirements ==
    \A i \in 1..Len(passwordCalls) :
        MeetsPasswordRequirements(passwordCalls[i].payload.new_password)

(***************************************************************************)
(* Claims about the auto-seed effects (SpecSeed).                          *)
(***************************************************************************)

\* A step in which an effect calls seedTransactions(30).
SeedStep == effectCalls'.seed > effectCalls.seed

\* C2 (as claimed): in one browser session of one user, the Dashboard and the
\* Transactions effects together call seedTransactions(30) at most once, whatever
\* re-runs of the effects happen while a seed request is in flight.
C2_SeedAtMostOnce == effectCalls.seed <= 1

\* C3 (as claimed): seedTransactions(30) is called only when the user has no
\* transactions at all: by the Dashboard only with total_transactions = 0, by
\* Transactions only when the user's list is empty and its query is neither
\* loading, fetching nor in error.
C3_SeedOnlyWithoutTransactions ==
    [][SeedStep =>
          IF live' = "Dashboard"
          THEN metrics'.has /\ metrics'.data = 0
          ELSE LET q == txQuery'[queryParams(filters')]
               IN /\ live' = "Transactions"
                  /\ q.has /\ ~q.fetching /\ ~q.error
                  /\ Len(db) = 0]_vars

\* The runs waiting on seedTransactions(30).
SeedsInFlight == {i \in 1..Len(runs) : runs[i].pc = "seed"}

\* A step in which a seed attempt settles.
SeedSettledStep == Cardinality(SeedsInFlight') < Cardinality(SeedsInFlight)

\* C15: when a seed attempt settles, resolved or rejected, the session marker of
\* the user is set; a rejection shows nothing to the user; the marker is never
\* removed; and once it is set no effect issues another seed request.
C15_FailedSeedNotRetried ==
    /\ [][SeedSettledStep => UserKeyPart \in sessionStorage']_vars
    /\ [][(SeedSettledStep /\ db' = db) => toast' = toast]_vars
    /\ [][sessionStorage \subseteq sessionStorage']_vars
    /\ [][Seeded => ~SeedStep]_vars

C15_Witness ==
    /\ Seeded
    /\ Len(db) = 0
    /\ effectCalls.seed = 1
    /\ runs = <<>>
    /\ live = "Transactions"
    /\ txQuery["{}"].has
    /\ txQuery["{}"].data = 0
    /\ ~txQuery["{}"].fetching
    /\ ~txQuery["{}"].error

====
